---- MODULE Spec2Model ----
(***************************************************************************)
(* Model of the aduplanet Pages middleware, functions/_middleware.ts (v8): *)
(* onRequest passes the request to the origin, returns non-HTML responses  *)
(* as they are, and for HTML responses looks up partials and stylesheets   *)
(* in the ASSETS binding, derives the route slug, captures the time,       *)
(* streams the document through an HTMLRewriter, reads the rewritten body, *)
(* hashes it and builds the final response.                                *)
(*                                                                         *)
(* Text is a sequence of atoms (strings).  Text the code looks into        *)
(* character by character (paths, hrefs, class values, dates, JSON-LD) is  *)
(* written one character per atom; opaque markup is one atom per piece.    *)
(***************************************************************************)
EXTENDS Integers, Sequences, FiniteSets, TLC

(***************************************************************************)
(* Bounds of the model.                                                    *)
(***************************************************************************)
\* clock advances (1 ms each) the environment may make during a run
MaxTicks == 2
\* requests handled one after the other in a run
MaxRequests == 2
\* longest generated request path, in characters after the leading slash
MaxPathLen == 2

(***************************************************************************)
(* Text helpers: String.prototype methods and the regular expressions of   *)
(* the source, computed on sequences of atoms.                             *)
(***************************************************************************)
Last(t) == t[Len(t)]
Front(t) == SubSeq(t, 1, Len(t) - 1)

RECURSIVE Concat(_)
Concat(ts) == IF ts = <<>> THEN <<>> ELSE Head(ts) \o Concat(Tail(ts))

\* String.prototype.includes(needle) for a one-atom needle
Includes(t, needle) == \E i \in 1..Len(t) : t[i] = needle

\* s.replace(/\/$/, "")
StripTrailingSlash(t) == IF Len(t) > 0 /\ Last(t) = "/" THEN Front(t) ELSE t

\* s.replace(/^\//, "")
StripLeadingSlash(t) == IF Len(t) > 0 /\ Head(t) = "/" THEN Tail(t) ELSE t

Digits == {"0", "1", "2", "3", "4", "5", "6", "7", "8", "9"}
LowerLetters ==
    {"a", "b", "c", "d", "e", "f", "g", "h", "i", "j", "k", "l", "m",
     "n", "o", "p", "q", "r", "s", "t", "u", "v", "w", "x", "y", "z"}
UpperLetters ==
    {"A", "B", "C", "D", "E", "F", "G", "H", "I", "J", "K", "L", "M",
     "N", "O", "P", "Q", "R", "S", "T", "U", "V", "W", "X", "Y", "Z"}
\* the class [\w-] of the slug regular expression
SlugChars == Digits \cup LowerLetters \cup UpperLetters \cup {"_", "-"}
\* the class \s, as far as the model's texts use it
WhiteSpace == {" ", "\t", "\n", "\r"}

\* s.replace(/[^\w-]/g, "-")
ReplaceNonSlugChars(t) == [i \in 1..Len(t) |-> IF t[i] \in SlugChars THEN t[i] ELSE "-"]

RECURSIVE TrimStart(_)
TrimStart(t) ==
    IF Len(t) > 0 /\ Head(t) \in WhiteSpace THEN TrimStart(Tail(t)) ELSE t
RECURSIVE TrimEnd(_)
TrimEnd(t) ==
    IF Len(t) > 0 /\ Last(t) \in WhiteSpace THEN TrimEnd(Front(t)) ELSE t
\* String.prototype.trim()
Trim(t) == TrimEnd(TrimStart(t))

(***************************************************************************)
(* Dates.  An instant is [day, ms]: days since 1970-01-01 and milliseconds *)
(* of that UTC day (a millisecond count since the epoch does not fit the   *)
(* model checker's integers).                                              *)
(***************************************************************************)
MsPerDay == 86400000

\* the proleptic Gregorian date of a day number (what Date's UTC getters return)
CivilFromDays(day) ==
    LET z == day + 719468
        era == z \div 146097
        doe == z - era * 146097
        yoe == (doe - doe \div 1460 + doe \div 36524 - doe \div 146096) \div 365
        doy == doe - (365 * yoe + yoe \div 4 - yoe \div 100)
        mp == (5 * doy + 2) \div 153
        d == doy - (153 * mp + 2) \div 5 + 1
        m == IF mp < 10 THEN mp + 3 ELSE mp - 9
        y == yoe + era * 400 + (IF m <= 2 THEN 1 ELSE 0)
    IN  [year |-> y, month |-> m, date |-> d]

DigitChar(n) == <<"0", "1", "2", "3", "4", "5", "6", "7", "8", "9">>[n + 1]

\* the decimal digits of n >= 0
RECURSIVE Decimal(_)
Decimal(n) == IF n < 10 THEN <<DigitChar(n)>> ELSE Decimal(n \div 10) \o <<DigitChar(n % 10)>>

\* String.prototype.padStart(width, "0") of the decimal digits of n
RECURSIVE PadStart(_, _, _)
PadStart(t, width, fill) == IF Len(t) >= width THEN t ELSE PadStart(<<fill>> \o t, width, fill)
Pad(n, width) == PadStart(Decimal(n), width, "0")

Hours(t) == t.ms \div 3600000
Minutes(t) == (t.ms \div 60000) % 60
Seconds(t) == (t.ms \div 1000) % 60
Millis(t) == t.ms % 1000

\* Date.prototype.toISOString(): YYYY-MM-DDTHH:mm:ss.sssZ
ToISOString(t) ==
    LET c == CivilFromDays(t.day)
    IN  Pad(c.year, 4) \o <<"-">> \o Pad(c.month, 2) \o <<"-">> \o Pad(c.date, 2)
        \o <<"T">> \o Pad(Hours(t), 2) \o <<":">> \o Pad(Minutes(t), 2) \o <<":">>
        \o Pad(Seconds(t), 2) \o <<".">> \o Pad(Millis(t), 3) \o <<"Z">>

\* String.prototype.slice(0, n)
Slice0(t, n) == SubSeq(t, 1, IF n < Len(t) THEN n ELSE Len(t))

MonthLong ==
    <<"January", "February", "March", "April", "May", "June", "July",
      "August", "September", "October", "November", "December">>
MonthShort ==
    <<"Jan", "Feb", "Mar", "Apr", "May", "Jun", "Jul", "Aug", "Sep", "Oct", "Nov", "Dec">>
DayShort == <<"Thu", "Fri", "Sat", "Sun", "Mon", "Tue", "Wed">>

\* toLocaleDateString("en-US", {month: "long", day: "numeric", year: "numeric"}),
\* in the runtime's time zone, which for Workers is UTC: "September 5, 2025"
ToLocaleDateString(t) ==
    LET c == CivilFromDays(t.day)
    IN  <<MonthLong[c.month], " ">> \o Decimal(c.date) \o <<",", " ">> \o Decimal(c.year)

\* Date.prototype.toUTCString(): "Fri, 05 Sep 2025 23:59:59 GMT"
ToUTCString(t) ==
    LET c == CivilFromDays(t.day)
    IN  <<DayShort[(t.day % 7) + 1], ",", " ">> \o Pad(c.date, 2) \o <<" ", MonthShort[c.month],
        " ">>
        \o Pad(c.year, 4) \o <<" ">> \o Pad(Hours(t), 2) \o <<":">> \o Pad(Minutes(t), 2)
        \o <<":">> \o Pad(Seconds(t), 2) \o <<" ", "GMT">>

\* the instant one millisecond after t
TickInstant(t) ==
    IF t.ms + 1 = MsPerDay THEN [day |-> t.day + 1, ms |-> 0] ELSE [day |-> t.day, ms |-> t.ms + 1]

(***************************************************************************)
(* HTML.  A document is a sequence of nodes; a node is an element (tag,    *)
(* attributes in source order, children) or a text node (tag "#text").     *)
(* Markup given to append / setInnerContent with {html: true} is written   *)
(* in the same form: it is what a client parses out of the bytes.          *)
(***************************************************************************)
Attr(name, value) == [name |-> name, value |-> value]
El(tag, attrs, kids) == [tag |-> tag, attrs |-> attrs, kids |-> kids, text |-> <<>>]
Txt(t) == [tag |-> "#text", attrs |-> <<>>, kids |-> <<>>, text |-> t]

\* el.hasAttribute(name)
HasAttribute(el, name) == \E i \in 1..Len(el.attrs) : el.attrs[i].name = name
\* el.getAttribute(name) || ""
GetAttributeOrEmpty(el, name) ==
    IF HasAttribute(el, name)
    THEN el.attrs[CHOOSE i \in 1..Len(el.attrs) : el.attrs[i].name = name].value
    ELSE <<>>
\* el.setAttribute(name, value): replaces the value in place, or adds the attribute
SetAttribute(el, name, value) ==
    IF HasAttribute(el, name)
    THEN [el EXCEPT !.attrs = [i \in 1..Len(el.attrs) |->
                                 IF el.attrs[i].name = name THEN Attr(name,
                                     value) ELSE el.attrs[i]]]
    ELSE [el EXCEPT !.attrs = Append(el.attrs, Attr(name, value))]

\* the built-in header fragment
FallbackHeader ==
    << El("nav", <<Attr("class", <<"wrap nav">>), Attr("role", <<"navigation">>),
                   Attr("aria-label", <<"Primary">>)>>,
          << El("a", <<Attr("class", <<"brand">>), Attr("href", <<"/">>),
                       Attr("aria-label", <<"ADUPlanet Home">>)>>,
                <<El("img", <<Attr("src", <<"/assets/logo.png">>)>>, <<>>)>>),
             El("div", <<Attr("class", <<"links">>)>>,
                << El("a", <<Attr("href", <<"/", "c", "o", "s", "t", "s">>)>>,
                    <<Txt(<<"Costs">>)>>),
                   El("a", <<Attr("href", <<"/", "r", "e", "g", "u", "l", "a", "t", "i", "o", "n",
                       "s">>)>>, <<Txt(<<"Regulations">>)>>),
                   El("a", <<Attr("href", <<"/", "b", "u", "i", "l", "d", "e", "r", "s">>)>>,
                       <<Txt(<<"Builders">>)>>),
                   El("a", <<Attr("href", <<"/", "f", "i", "n", "a", "n", "c", "i", "n", "g">>)>>,
                       <<Txt(<<"Financing">>)>>),
                   El("a", <<Attr("href", <<"/", "b", "l", "o", "g", "/">>)>>,
                       <<Txt(<<"Blog">>)>>) >>) >>),
       El("style", <<>>, <<Txt(<<"header{...}">>)>>) >>

\* the built-in footer fragment, with its freshness-marked <time>
FallbackFooter ==
    << El("div", <<Attr("class", <<"wrap">>)>>,
          << El("nav", <<Attr("class", <<"footer-links">>), Attr("aria-label", <<"Footer">>)>>,
                << El("a", <<Attr("href", <<"/", "a", "b", "o", "u", "t">>)>>,
                    <<Txt(<<"About">>)>>),
                   El("a", <<Attr("href", <<"/", "p", "r", "i", "v", "a", "c", "y">>)>>,
                       <<Txt(<<"Privacy">>)>>),
                   El("a", <<Attr("href", <<"/", "b", "u", "i", "l", "d", "e", "r", "s">>)>>,
                       <<Txt(<<"Find Builders">>)>>) >>),
             El("p", <<Attr("class", <<"freshness">>)>>,
                << Txt(<<"Updated ">>),
                   El("time", <<Attr("data-global-freshness", <<>>),
                                Attr("datetime", <<"2", "0", "2", "5", "-", "0", "8", "-", "2",
                                    "7">>)>>,
                      <<Txt(<<"August", " ">> \o <<"2", "7">> \o <<",", " ">> \o <<"2", "0", "2",
                          "5">>)>>),
                   Txt(<<".">>) >>) >>),
       El("style", <<>>, <<Txt(<<"footer.site-footer{...}">>)>>) >>

\* the inline <style> appended to <head> when no primary stylesheet exists
InlineFallbackStyle == El("style", <<>>, <<Txt(<<"header .links{...}">>)>>)
PrimaryLink(href) ==
    El("link", <<Attr("rel", <<"stylesheet">>), Attr("href", href), Attr("data-injected", <<>>)>>,
        <<>>)
ForceLightLink(href) ==
    El("link", <<Attr("rel", <<"stylesheet">>), Attr("href", href),
                 Attr("data-injected", <<"force-light">>)>>, <<>>)
UpdatedTimeMeta(isoFull) ==
    El("meta", <<Attr("property", <<"og:updated_time">>), Attr("content", isoFull)>>, <<>>)

MainCssPath == <<"/", "s", "t", "y", "l", "e", "s", "/", "m", "a", "i", "n", ".", "c", "s", "s">>
MainPath == <<"/", "s", "t", "y", "l", "e", "s", "/", "m", "a", "i", "n">>
ForceLightCssPath == <<"/", "s", "t", "y", "l", "e", "s", "/", "f", "o", "r", "c", "e", "-", "l",
    "i", "g", "h", "t", ".", "c", "s", "s">>
HeaderPartialPath == <<"/", "p", "a", "r", "t", "i", "a", "l", "s", "/", "h", "e", "a", "d", "e",
    "r", ".", "h", "t", "m", "l">>
FooterPartialPath == <<"/", "p", "a", "r", "t", "i", "a", "l", "s", "/", "f", "o", "o", "t", "e",
    "r", ".", "h", "t", "m", "l">>

(***************************************************************************)
(* The JSON-LD patch:                                                      *)
(*   src.replace(/"dateModified"\s*:\s*"[0-9T:\-+.Z]+"/g,                  *)
(*               `"dateModified":"${isoDate}"`)                            *)
(***************************************************************************)
DateModifiedKey == <<"\"", "d", "a", "t", "e", "M", "o", "d", "i", "f", "i", "e", "d", "\"">>
\* the class [0-9T:\-+.Z]
DateValueChars == Digits \cup {"T", ":", "-", "+", ".", "Z"}

\* the number of leading atoms of t that are in class
RECURSIVE RunLength(_, _)
RunLength(t, class) ==
    IF Len(t) > 0 /\ Head(t) \in class THEN 1 + RunLength(Tail(t), class) ELSE 0

StartsWith(t, prefix) == Len(t) >= Len(prefix) /\ SubSeq(t, 1, Len(prefix)) = prefix
Drop(t, n) == SubSeq(t, n + 1, Len(t))

\* the length of the match of the pattern at the start of t, 0 when there is none
DateModifiedMatchLength(t) ==
    IF ~StartsWith(t, DateModifiedKey) THEN 0
    ELSE LET k == Len(DateModifiedKey)
             w1 == RunLength(Drop(t, k), WhiteSpace)
             afterWs1 == Drop(t, k + w1)
         IN  IF ~StartsWith(afterWs1, <<":">>) THEN 0
             ELSE LET w2 == RunLength(Drop(afterWs1, 1), WhiteSpace)
                      afterWs2 == Drop(afterWs1, 1 + w2)
                  IN  IF ~StartsWith(afterWs2, <<"\"">>) THEN 0
                      ELSE LET v == RunLength(Drop(afterWs2, 1), DateValueChars)
                           IN  IF v >= 1 /\ StartsWith(Drop(afterWs2, 1 + v), <<"\"">>)
                               THEN k + w1 + 1 + w2 + 1 + v + 1
                               ELSE 0

\* the global replace, left to right, matches not overlapping
RECURSIVE PatchDateModified(_, _)
PatchDateModified(src, isoDate) ==
    IF src = <<>> THEN <<>>
    ELSE LET n == DateModifiedMatchLength(src)
         IN  IF n > 0
             THEN DateModifiedKey \o <<":", "\"">> \o isoDate \o <<"\"">>
                  \o PatchDateModified(Drop(src, n), isoDate)
             ELSE <<Head(src)>> \o PatchDateModified(Tail(src), isoDate)

\* The text handler runs once per text chunk the parser hands over; a text node
\* that spans two chunks of the incoming stream arrives as two chunks (and a last,
\* empty one).  chunkAt is where the stream cuts the node, 0 for no cut.
TextChunks(text, chunkAt) ==
    IF chunkAt > 0 /\ chunkAt < Len(text)
    THEN <<SubSeq(text, 1, chunkAt), Drop(text, chunkAt), <<>> >>
    ELSE <<text, <<>> >>

\* text(t) of the script[type="application/ld+json"] handler, for one chunk
JsonLdTextHandler(chunk, isoDate) ==
    LET patched == PatchDateModified(chunk, isoDate)
    IN  IF patched # chunk THEN patched ELSE chunk

RewriteJsonLdText(text, chunkAt, isoDate) ==
    LET chunks == TextChunks(text, chunkAt)
    IN  Concat([i \in 1..Len(chunks) |-> JsonLdTextHandler(chunks[i], isoDate)])

(***************************************************************************)
(* Values that may be null: the results of getAsset and the two hrefs.     *)
(***************************************************************************)
Null == [some |-> FALSE, val |-> <<>>]
Some(v) == [some |-> TRUE, val |-> v]
\* JavaScript truthiness of a string-or-null: null and "" are falsy
Truthy(m) == m.some /\ m.val # <<>>

(***************************************************************************)
(* The HTMLRewriter pipeline.  The handlers run on the elements and text   *)
(* of the incoming document, in document order.  Content a handler puts    *)
(* in (append, setInnerContent) goes to the output as it is: it is not     *)
(* parsed and no handler runs on it.  Content that setInnerContent         *)
(* replaces is dropped from the output, with whatever handlers did to it.  *)
(***************************************************************************)
\* the selector "header nav a", given the tags of the ancestors, outermost first
InHeaderNav(anc) ==
    \E i \in 1..Len(anc) : \E j \in (i + 1)..Len(anc) : anc[i] = "header" /\ anc[j] = "nav"

\* HeadAppends with the updated-time meta appended first
HeadAppendsMetaFirst(ctx) ==
    <<UpdatedTimeMeta(ctx.isoFull)>>
    \o (IF Truthy(ctx.cssHref) THEN <<PrimaryLink(ctx.cssHref.val)>> ELSE <<InlineFallbackStyle>>)
    \o (IF Truthy(ctx.forceCssHref) THEN <<ForceLightLink(ctx.forceCssHref.val)>> ELSE <<>>)

\* .on("head"): el.append(...) three times, after the element's own children
HeadAppends(ctx) ==
    (IF Truthy(ctx.cssHref) THEN <<PrimaryLink(ctx.cssHref.val)>> ELSE <<InlineFallbackStyle>>)
    \o (IF Truthy(ctx.forceCssHref) THEN <<ForceLightLink(ctx.forceCssHref.val)>> ELSE <<>>)
    \o <<UpdatedTimeMeta(ctx.isoFull)>>

\* BodyHandler leaving out a token the class already has
BodyHandlerDeduplicating(el, ctx) ==
    LET cls == Trim(GetAttributeOrEmpty(el, "class"))
        has == \E i \in 1..Len(cls) : Len(cls) >= i + 10 /\ SubSeq(cls, i, i + 10) = <<"f", "o",
            "r", "c", "e", "-", "l", "i", "g", "h", "t">>
        nextCls == (IF cls # <<>> THEN cls \o <<" ">> ELSE <<>>)
                   \o (IF has THEN <<>> ELSE <<"f", "o", "r", "c", "e", "-", "l", "i", "g", "h",
                       "t", " ">>) \o <<"p", "a", "g", "e", "-">> \o ctx.slug
    IN  SetAttribute(SetAttribute(el, "class", nextCls), "data-route", ctx.slug)

\* .on("body"): class and data-route
BodyHandler(el, ctx) ==
    LET cls == Trim(GetAttributeOrEmpty(el, "class"))
        nextCls == (IF cls # <<>> THEN cls \o <<" ">> ELSE <<>>) \o <<"f", "o", "r", "c", "e", "-",
            "l", "i", "g", "h", "t", " ", "p", "a", "g", "e", "-">> \o ctx.slug
    IN  SetAttribute(SetAttribute(el, "class", nextCls), "data-route", ctx.slug)

\* .on("header nav a"): aria-current on the anchor whose href is the current path
NavAnchorHandler(el, ctx) ==
    LET href == StripTrailingSlash(GetAttributeOrEmpty(el, "href"))
        cur == ctx.pathname
    IN  IF href = cur \/ (href = <<>> /\ cur = <<>>)
        THEN SetAttribute(el, "aria-current", <<"p", "a", "g", "e">>)
        ELSE el

\* .on('time[data-global-freshness]'): datetime and the visible text
FreshnessHandler(el, ctx) ==
    [SetAttribute(el, "datetime", ctx.isoDate) EXCEPT !.kids = <<Txt(ctx.human)>>]

IsJsonLdScript(el) ==
    el.tag = "script" /\ HasAttribute(el, "type")
    /\ GetAttributeOrEmpty(el, "type") = <<"application/ld+json">>

RECURSIVE RewriteNodes(_, _, _)
RewriteNode(n, anc, ctx) ==
    LET inner == Append(anc, n.tag)
    IN  CASE n.tag = "#text" -> n
          [] n.tag = "head" ->
                [n EXCEPT !.kids = RewriteNodes(n.kids, inner, ctx) \o HeadAppends(ctx)]
          [] n.tag = "body" ->
                [BodyHandler(n, ctx) EXCEPT !.kids = RewriteNodes(n.kids, inner, ctx)]
          [] n.tag = "header" -> [n EXCEPT !.kids = ctx.headerHTML]
          [] n.tag = "footer" -> [n EXCEPT !.kids = ctx.footerHTML]
          [] n.tag = "a" /\ InHeaderNav(anc) ->
                [NavAnchorHandler(n, ctx) EXCEPT !.kids = RewriteNodes(n.kids, inner, ctx)]
          [] n.tag = "time" /\ HasAttribute(n, "data-global-freshness") ->
                FreshnessHandler(n, ctx)
          [] IsJsonLdScript(n) ->
                [n EXCEPT !.kids = [i \in 1..Len(n.kids) |->
                    IF n.kids[i].tag = "#text"
                    THEN Txt(RewriteJsonLdText(n.kids[i].text, ctx.chunkAt, ctx.isoDate))
                    ELSE n.kids[i]]]
          [] OTHER -> [n EXCEPT !.kids = RewriteNodes(n.kids, inner, ctx)]
RewriteNodes(ns, anc, ctx) == [i \in 1..Len(ns) |-> RewriteNode(ns[i], anc, ctx)]

\* new HTMLRewriter()...transform(originRes), read to its end
Transform(doc, ctx) == RewriteNodes(doc, <<>>, ctx)

(***************************************************************************)
(* The bytes of a document.                                                *)
(***************************************************************************)
VoidTags == {"img", "link", "meta"}

RECURSIVE SerializeNodes(_)
SerializeAttrs(attrs) ==
    Concat([i \in 1..Len(attrs) |->
              IF attrs[i].value = <<>> THEN <<" ", attrs[i].name>>
              ELSE <<" ", attrs[i].name, "=", "\"">> \o attrs[i].value \o <<"\"">>])
SerializeNode(n) ==
    IF n.tag = "#text" THEN n.text
    ELSE <<"<", n.tag>> \o SerializeAttrs(n.attrs) \o <<">">> \o SerializeNodes(n.kids)
         \o (IF n.tag \in VoidTags THEN <<>> ELSE <<"</", n.tag, ">">>)
SerializeNodes(ns) == Concat([i \in 1..Len(ns) |-> SerializeNode(ns[i])])

\* printable ASCII in code order: 32 to 95, and 97 to 126
AsciiTable ==
    <<" ", "!", "\"", "#", "$", "%", "&", "'", "(", ")", "*", "+", ",", "-", ".", "/", "0", "1",
        "2", "3", "4", "5", "6", "7", "8", "9", ":", ";", "<", "=", ">", "?", "@", "A", "B", "C",
        "D", "E", "F", "G", "H", "I", "J", "K", "L", "M", "N", "O", "P", "Q", "R", "S", "T", "U",
        "V", "W", "X", "Y", "Z", "[", "\\", "]", "^", "_">>
AsciiTableHigh ==
    <<"a", "b", "c", "d", "e", "f", "g", "h", "i", "j", "k", "l", "m", "n", "o", "p", "q", "r",
        "s", "t", "u", "v", "w", "x", "y", "z", "{", "|", "}", "~">>
\* the pieces of markup and text the model keeps whole, numbered from 128
OpaqueTable ==
    <<"(c) ADU Planet", "/assets/logo.png", "</", "ADU Planet", "ADUPlanet Home", "About", "April",
        "August", "Blog", "Builders", "Costs", "December", "February", "Financing",
        "Find Builders", "Footer", "Home", "January", "July", "June", "March", "May", "November",
        "October", "Primary", "Privacy", "Regulations", "September", "Updated ",
        "application/ld+json", "aria-current", "aria-label", "body", "brand", "class", "content",
        "data-global-freshness", "data-injected", "data-route", "datetime", "div", "footer",
        "footer-links", "footer.site-footer{...}", "force-light", "freshness", "head", "header",
        "header .links{...}", "header{...}", "href", "html", "img", "link", "links", "long ago",
        "main", "meta", "nav", "navigation", "og:updated_time", "property", "rel", "role",
        "script", "src", "stale", "style", "stylesheet", "time", "title", "type", "wrap",
        "wrap nav">>
IndexIn(table, atom) == CHOOSE i \in 1..Len(table) : table[i] = atom
\* new TextEncoder().encode(text): one code per atom
Utf8Code(atom) ==
    CASE atom = "\t" -> 9
      [] atom = "\n" -> 10
      [] atom = "\r" -> 13
      [] \E i \in 1..Len(AsciiTable) : AsciiTable[i] = atom -> 31 + IndexIn(AsciiTable, atom)
      [] \E i \in 1..Len(AsciiTableHigh) : AsciiTableHigh[i] = atom ->
            96 + IndexIn(AsciiTableHigh, atom)
      [] OTHER -> 127 + IndexIn(OpaqueTable, atom)
TextEncode(text) == [i \in 1..Len(text) |-> Utf8Code(text[i])]

\* crypto.subtle.digest("SHA-256", bytes): 32 octets that depend on nothing but the
\* bytes.  The compression function is replaced by a polynomial in the bytes,
\* modulo a prime, computed by halves: [h, p] is the value and the power of the base.
MixModulus == 32749
MixBase == 257
RECURSIVE MixRange(_, _, _)
MixRange(bytes, lo, hi) ==
    IF lo > hi THEN [h |-> 0, p |-> 1]
    ELSE IF lo = hi THEN [h |-> (bytes[lo] + 1) % MixModulus, p |-> MixBase]
    ELSE LET mid == (lo + hi) \div 2
             l == MixRange(bytes, lo, mid)
             r == MixRange(bytes, mid + 1, hi)
         IN  [h |-> (l.h * r.p + r.h) % MixModulus, p |-> (l.p * r.p) % MixModulus]
Sha256(bytes) ==
    LET h == MixRange(bytes, 1, Len(bytes)).h + Len(bytes) + 7
    IN  [i \in 1..32 |-> (h * i + h \div i) % 256]

HexDigit(n) ==
    <<"0", "1", "2", "3", "4", "5", "6", "7", "8", "9", "a", "b", "c", "d", "e", "f">>[n + 1]
\* Number.prototype.toString(16)
RECURSIVE ToString16(_)
ToString16(n) == IF n < 16 THEN <<HexDigit(n)>> ELSE ToString16(n \div 16) \o <<HexDigit(n % 16)>>
\* Array.from(new Uint8Array(digest)).map(b => b.toString(16).padStart(2, "0")).join("")
HexOfDigest(digest) == Concat([i \in 1..Len(digest) |-> PadStart(ToString16(digest[i]), 2, "0")])
\* `W/"${hex.slice(0, 16)}"`
WeakETag(hex) == <<"W", "/", "\"">> \o Slice0(hex, 16) \o <<"\"">>

(***************************************************************************)
(* Headers: a function from lower-case names to values.                    *)
(***************************************************************************)
\* the Headers class takes names case-insensitively
LowerCaseName(name) ==
    CASE name = "ETag" -> "etag"
      [] name = "Last-Modified" -> "last-modified"
      [] name = "Cache-Control" -> "cache-control"
      [] OTHER -> name
HeadersHas(h, name) == LowerCaseName(name) \in DOMAIN h
\* headers.get(name) || ""
HeadersGetOrEmpty(h, name) == IF HeadersHas(h, name) THEN h[LowerCaseName(name)] ELSE <<>>
HeadersSet(h, name, value) ==
    [n \in (DOMAIN h) \cup {LowerCaseName(name)} |->
        IF n = LowerCaseName(name) THEN value ELSE h[n]]

\* new Response(body, {status}), lines 191-195: with one of these statuses the Fetch
\* standard has the constructor throw a TypeError for any body that is not null
NullBodyStatuses == {101, 204, 205, 304}

\* what the constructor can do with a string body: the Fetch standard throws for a
\* null body status; the Workers runtime lets a body of length zero through (as no
\* body) and throws for any other
NewResponseOutcomes(status, text) ==
    IF status \notin NullBodyStatuses THEN {"constructed"}
    ELSE IF text = <<>> THEN {"constructed", "thrown"}
    ELSE {"thrown"}

(***************************************************************************)
(* The inputs of a run: the request, what the origin answers, what the     *)
(* ASSETS binding holds, the build's commit time and the clock.            *)
(***************************************************************************)
Anchor(href, label) == El("a", <<Attr("href", href)>>, <<Txt(<<label>>)>>)
MarkedTime(datetime, text) ==
    El("time", <<Attr("data-global-freshness", <<>>), Attr("datetime", datetime)>>, <<Txt(text)>>)
PlainTime == El("time", <<Attr("datetime", <<"2", "0", "0", "1", "-", "0", "1", "-", "0", "1">>)>>,
    <<Txt(<<"long ago">>)>>)
JsonLdScript(text) == El("script", <<Attr("type", <<"application/ld+json">>)>>, <<Txt(text)>>)

PageHead == El("head", <<>>, <<El("title", <<>>, <<Txt(<<"ADU Planet">>)>>)>>)
PageHeader ==
    El("header", <<>>,
       <<El("nav", <<>>, <<Anchor(<<"/">>, "Home"), Anchor(<<"/", "c", "o", "s", "t", "s">>,
           "Costs"),
                           Anchor(<<"/", "f", "i", "n", "a", "n", "c", "i", "n", "g">>,
                               "Financing")>>)>>)
PageFooter ==
    El("footer", <<Attr("class", <<"s", "i", "t", "e", "-", "f", "o", "o", "t", "e", "r">>)>>,
        <<El("p", <<>>, <<Txt(<<"(c) ADU Planet">>)>>)>>)
\* a page of the expected shape: head, body, one header, one footer
Page(bodyAttrs, mainKids) ==
    <<El("html", <<>>,
         <<PageHead,
           El("body", bodyAttrs, <<PageHeader, El("main", <<>>, mainKids), PageFooter>>)>>)>>

JsonLdIso == <<"{", "\"", "d", "a", "t", "e", "M", "o", "d", "i", "f", "i", "e", "d", "\"", ":",
    "\"", "2", "0", "2", "4", "-", "0", "1", "-", "0", "1", "T", "0", "0", ":", "0", "0", ":", "0",
    "0", ".", "0", "0", "0", "Z", "\"", "}">>
JsonLdSpaced == <<"{", "\"", "d", "a", "t", "e", "M", "o", "d", "i", "f", "i", "e", "d", "\"", " ",
    ":", " ", "\"", "2", "0", "2", "4", "-", "0", "1", "-", "0", "1", "\"", "}">>
JsonLdTwo == <<"{", "\"", "d", "a", "t", "e", "M", "o", "d", "i", "f", "i", "e", "d", "\"", ":",
    "\"", "2", "0", "2", "4", "-", "0", "1", "-", "0", "1", "\"", ",", "\"", "a", "\"", ":", "{",
    "\"", "d", "a", "t", "e", "M", "o", "d", "i", "f", "i", "e", "d", "\"", ":", "\"", "2", "0",
    "2", "3", "-", "0", "5", "-", "0", "5", "\"", "}", "}">>
JsonLdNone == <<"{", "\"", "d", "a", "t", "e", "P", "u", "b", "l", "i", "s", "h", "e", "d", "\"",
    ":", "\"", "2", "0", "2", "4", "-", "0", "1", "-", "0", "1", "\"", "}">>
JsonLdWords == <<"{", "\"", "d", "a", "t", "e", "M", "o", "d", "i", "f", "i", "e", "d", "\"", ":",
    "\"", "J", "a", "n", " ", "1", ",", " ", "2", "0", "2", "4", "\"", "}">>
JsonLdTexts == {JsonLdIso, JsonLdSpaced, JsonLdTwo, JsonLdNone, JsonLdWords}

DocContract ==
    Page(<<Attr("class", <<" ", "h", "o", "m", "e", " ", "w", "i", "d", "e", " ">>)>>,
         <<MarkedTime(<<"2", "0", "2", "0", "-", "0", "1", "-", "0", "1">>, <<"January",
             " ">> \o <<"1">> \o <<",", " ">> \o <<"2", "0", "2", "0">>),
           PlainTime, JsonLdScript(JsonLdIso)>>)
\* DocContract with another stale date in its freshness stamp
DocContractOlder ==
    Page(<<Attr("class", <<" ", "h", "o", "m", "e", " ", "w", "i", "d", "e", " ">>)>>,
         <<MarkedTime(<<"2", "0", "1", "9", "-", "0", "6", "-", "3", "0">>, <<"June",
             " ">> \o <<"3", "0">> \o <<",", " ">> \o <<"2", "0", "1", "9">>),
           PlainTime, JsonLdScript(JsonLdIso)>>)
\* no head, no header, no footer; a nav outside any header
DocBare ==
    <<El("body", <<>>,
         <<El("nav", <<>>, <<Anchor(<<"/", "f", "i", "n", "a", "n", "c", "i", "n", "g">>,
             "Financing")>>),
           MarkedTime(<<"2", "0", "2", "0", "-", "0", "1", "-", "0", "1">>, <<"stale">>)>>)>>
DocJsonLd(text) == Page(<<>>, <<JsonLdScript(text)>>)
\* the body of a response that is not HTML
JsonBody == <<Txt(<<"{", "\"", "o", "k", "\"", ":", "t", "r", "u", "e", "}">>)>>

\* header.html and footer.html as they may be stored
CustomHeader ==
    <<El("nav", <<>>, <<Anchor(<<"/">>, "Home"), Anchor(<<"/", "c", "o", "s", "t", "s">>, "Costs"),
                        Anchor(<<"/", "f", "i", "n", "a", "n", "c", "i", "n", "g", "/">>,
                            "Financing")>>)>>
CustomHeaderMarked ==
    <<El("nav", <<>>,
         <<El("a", <<Attr("href", <<"/">>), Attr("aria-current", <<"p", "a", "g", "e">>)>>,
             <<Txt(<<"Home">>)>>),
           Anchor(<<"/", "f", "i", "n", "a", "n", "c", "i", "n", "g">>, "Financing")>>)>>
CustomFooter ==
    <<El("p", <<>>,
         <<Txt(<<"Updated ">>),
           MarkedTime(<<"2", "0", "2", "4", "-", "1", "2", "-", "3", "1">>, <<"December",
               " ">> \o <<"3", "1">> \o <<",", " ">> \o <<"2", "0", "2", "4">>)>>)>>
EmptyFile == <<>>

\* one entry of the asset store: what ASSETS.fetch does for a path
Stored(text) == [kind |-> "ok", text |-> text]
NotFound == [kind |-> "notok", text |-> <<>>]
FetchThrows == [kind |-> "throw", text |-> <<>>]

AssetStore(header, footer, mainCss, main, forceLight) ==
    [hasAssets |-> TRUE, header |-> header, footer |-> footer, mainCss |-> mainCss,
     main |-> main, forceLight |-> forceLight]
EmptyStore == AssetStore(NotFound, NotFound, NotFound, NotFound, NotFound)
\* env without an ASSETS binding
NoBinding == [EmptyStore EXCEPT !.hasAssets = FALSE]
FullStore ==
    AssetStore(Stored(CustomHeader), Stored(CustomFooter), Stored(<<"css">>), NotFound,
               Stored(<<"css">>))

HeaderOutcomes ==
    {Stored(CustomHeader), Stored(CustomHeaderMarked), Stored(EmptyFile), NotFound, FetchThrows}
FooterOutcomes == {Stored(CustomFooter), NotFound, FetchThrows}
ProbeOutcomes == {Stored(<<"css">>), NotFound, FetchThrows}

\* instants the clock may show when a request arrives
Sep5LastMs == [day |-> 20336, ms |-> 86399999]
LeapDayNoon == [day |-> 19782, ms |-> 43200000]
Dec31LastMs == [day |-> 20453, ms |-> 86399999]
StartInstants == {Sep5LastMs, LeapDayNoon, Dec31LastMs}
\* CF_PAGES_COMMIT_TIME: unset, or the instant of the commit
CommitInstant == [day |-> 20327, ms |-> 36000000]
NoInstant == [day |-> 0, ms |-> 0]
NoCommitTime == [some |-> FALSE, val |-> NoInstant]
CommitTimes == {NoCommitTime, Some(CommitInstant)}

HtmlType == <<"text/html", ";", " ", "charset=utf-8">>
HtmlHeaders == [n \in {"content-type"} |-> HtmlType]
WithHeader(h, name, value) == [n \in (DOMAIN h) \cup {name} |-> IF n = name THEN value ELSE h[n]]
\* header sets of HTML answers
HtmlHeaderSets ==
    {HtmlHeaders,
     [n \in {"content-type"} |-> <<"text/html">>],
     WithHeader(HtmlHeaders, "etag", <<"\"", "origin-etag", "\"">>),
     WithHeader(HtmlHeaders, "referrer-policy", <<"no-referrer">>),
     WithHeader(WithHeader(HtmlHeaders, "x-frame-options", <<"DENY">>),
                "cache-control", <<"max-age=600">>),
     WithHeader(WithHeader(HtmlHeaders, "last-modified", <<"Mon, 01 Jan 2024 00:00:00 GMT">>),
                "x-aduplanet-injected", <<"0">>)}
\* header sets of answers that are not HTML: other types, no type, another case
OtherHeaderSets ==
    {[n \in {"content-type"} |-> <<"application/json">>],
     [n \in {"content-type"} |-> <<"TEXT/HTML">>],
     [n \in {"etag"} |-> <<"\"", "origin-etag", "\"">>],
     WithHeader([n \in {"content-type"} |-> <<"text/css">>], "cache-control", <<"max-age=600">>)}

PathAlphabet == {"a", "/", "!", "_"}
\* the generated paths: a slash and up to MaxPathLen characters
RECURSIVE TextsUpTo(_)
TextsUpTo(n) ==
    IF n = 0 THEN {<<>>}
    ELSE TextsUpTo(n - 1)
         \cup {Append(t, c) : t \in {u \in TextsUpTo(n - 1) : Len(u) = n - 1}, c \in PathAlphabet}
GeneratedPaths == {<<"/">> \o t : t \in TextsUpTo(MaxPathLen)}
NamedPaths ==
    {<<"/">>, <<"/", "f", "i", "n", "a", "n", "c", "i", "n", "g">>, <<"/", "f", "i", "n", "a", "n",
        "c", "i", "n", "g", "/">>, <<"/", "c", "o", "s", "t", "s">>, <<"/", "b", "l", "o", "g",
        "/">>, <<"/", "b", "l", "o", "g", "/", "m", "y", "-", "p", "o", "s", "t", "!">>,
     <<"/", "C", "a", "f", "%", "C", "3", "%", "A", "9", ".", "h", "t", "m", "l">>}

BaseInput ==
    [method |-> "GET", path |-> <<"/", "f", "i", "n", "a", "n", "c", "i", "n", "g">>,
        status |-> 200, headers |-> HtmlHeaders,
     body |-> Some(DocContract), chunkAt |-> 0, store |-> EmptyStore, commitTime |-> NoCommitTime,
     start |-> Sep5LastMs]

RouteInputs == {[BaseInput EXCEPT !.path = p] : p \in GeneratedPaths \cup NamedPaths}
HttpInputs ==
    {[BaseInput EXCEPT !.method = m, !.status = s, !.headers = h, !.body = b] :
        m \in {"GET", "HEAD"}, s \in {200, 404, 500}, h \in HtmlHeaderSets \cup OtherHeaderSets,
        b \in {Some(DocContract), Some(JsonBody), Null}}
    \cup {[BaseInput EXCEPT !.method = m, !.status = s, !.headers = h, !.body = Null] :
             m \in {"GET", "HEAD"}, s \in {204, 304}, h \in HtmlHeaderSets \cup OtherHeaderSets}
StoreInputs ==
    {[BaseInput EXCEPT !.store = AssetStore(h, f, c, m, l), !.body = Some(d)] :
        h \in HeaderOutcomes, f \in FooterOutcomes, c \in {Stored(<<"css">>), NotFound},
        m \in ProbeOutcomes, l \in {Stored(<<"css">>), NotFound}, d \in {DocContract, DocBare}}
    \cup {[BaseInput EXCEPT !.store = NoBinding]}
NavInputs ==
    {[BaseInput EXCEPT !.path = p, !.store.header = h] :
        p \in {<<"/">>, <<"/", "f", "i", "n", "a", "n", "c", "i", "n", "g">>, <<"/", "f", "i", "n",
            "a", "n", "c", "i", "n", "g", "/">>, <<"/", "c", "o", "s", "t", "s">>},
        h \in {NotFound, Stored(CustomHeader), Stored(CustomHeaderMarked)}}
JsonLdInputs ==
    {[BaseInput EXCEPT !.body = Some(DocJsonLd(t)), !.chunkAt = k] :
        t \in JsonLdTexts, k \in {0, 9, 20}}
ClockInputs ==
    {[BaseInput EXCEPT !.start = s, !.commitTime = c, !.method = m] :
        s \in StartInstants, c \in CommitTimes, m \in {"GET", "HEAD"}}
\* <body> with no class, an empty one, one of white space only, one with inner runs
\* of white space, and one that already carries the two tokens
BodyClassAttrs ==
    {<<>>, <<Attr("class", <<>>)>>, <<Attr("class", <<" ", " ">>)>>, <<Attr("class", <<"a", " ",
        " ", "b">>)>>,
     <<Attr("class", <<"f", "o", "r", "c", "e", "-", "l", "i", "g", "h", "t", " ", "p", "a", "g",
         "e", "-", "f", "i", "n", "a", "n", "c", "i", "n", "g">>)>>}
BodyInputs == {[BaseInput EXCEPT !.body = Some(Page(a, <<>>))] : a \in BodyClassAttrs}
\* the inputs of runs that go on to a second request
RepeatInputs ==
    {[BaseInput EXCEPT !.body = Some(d), !.headers = h, !.store = s] :
        d \in {DocContract, DocContractOlder},
        h \in {HtmlHeaders, WithHeader(HtmlHeaders, "etag", <<"\"", "origin-etag", "\"">>)},
        s \in {EmptyStore, FullStore}}
Inputs ==
    RouteInputs \cup HttpInputs \cup StoreInputs \cup NavInputs \cup JsonLdInputs
    \cup ClockInputs \cup BodyInputs \cup RepeatInputs

(***************************************************************************)
(* The state of a run.                                                     *)
(***************************************************************************)
VARIABLES
    inp,          \* the request, the origin's answer and the environment
    pc,           \* the await onRequest is at, or "done" / "threw"
    clock,        \* what new Date() and Date.now() return
    ticks,        \* clock advances so far
    fetchLog,     \* the paths given to ASSETS.fetch, in order
    inFlight,     \* the paths of the fetches that have not resolved yet
    headerHTML, footerHTML, cssHref, forceCssHref,
    pathname, slug,
    now, isoFull, isoDate, human,
    finalBody,    \* the document read back from the rewritten response
    bodyReads,    \* how often a body was read to its end
    digests,      \* how often a digest was computed
    response,     \* what onRequest returned
    prev,         \* the request before: its input and what was returned for it
    handled       \* requests taken so far

inputVars == <<inp, handled, prev>>
assetVars == <<fetchLog, inFlight, headerHTML, footerHTML, cssHref, forceCssHref>>
routeVars == <<pathname, slug>>
timeVars == <<now, isoFull, isoDate, human>>
bodyVars == <<finalBody, bodyReads, digests>>
vars == <<inputVars, pc, clock, ticks, assetVars, routeVars, timeVars, bodyVars, response>>

NoResponse == [some |-> FALSE, val |-> [status |-> 0, headers |-> <<>>, body |-> Null]]
NoPrev == [some |-> FALSE, inp |-> BaseInput, res |-> NoResponse]
OriginRes == [status |-> inp.status, headers |-> inp.headers, body |-> inp.body]

Fresh(input) ==
    /\ inp = input
    /\ pc = "next"
    /\ clock = input.start
    /\ fetchLog = <<>> /\ inFlight = {}
    /\ headerHTML = Null /\ footerHTML = Null /\ cssHref = Null /\ forceCssHref = Null
    /\ pathname = <<>> /\ slug = <<>>
    /\ now = NoInstant /\ isoFull = <<>> /\ isoDate = <<>> /\ human = <<>>
    /\ finalBody = Null /\ bodyReads = 0 /\ digests = 0
    /\ response = NoResponse

Init ==
    /\ \E input \in Inputs : Fresh(input)
    /\ ticks = 0
    /\ prev = NoPrev
    /\ handled = 1

(***************************************************************************)
(* The ASSETS helpers.                                                     *)
(***************************************************************************)
\* env.ASSETS?.fetch?.(...) is called only when the binding is there
FetchIssued(store, path) == IF store.hasAssets THEN <<path>> ELSE <<>>
\* the call of getAsset or assetExists up to its await: the fetch of the step before
\* has resolved, this one is issued and waited for
Calls(path) ==
    /\ fetchLog' = fetchLog \o FetchIssued(inp.store, path)
    /\ inFlight' = {FetchIssued(inp.store, path)[i] : i \in 1..Len(FetchIssued(inp.store, path))}

\* getAsset: the text of an ok answer; null for no binding, a throw or a non-ok answer
getAsset(store, entry) ==
    IF ~store.hasAssets THEN Null
    ELSE CASE entry.kind = "ok" -> Some(entry.text)
           [] entry.kind = "notok" -> Null
           [] entry.kind = "throw" -> Null

\* assetExists: whether the answer is ok; false for no binding or a throw
assetExists(store, entry) ==
    IF ~store.hasAssets THEN FALSE
    ELSE CASE entry.kind = "ok" -> TRUE
           [] entry.kind = "notok" -> FALSE
           [] entry.kind = "throw" -> FALSE

\* if (!headerHTML) headerHTML = `...`
OrFallback(html, fallback) == IF ~Truthy(html) THEN Some(fallback) ELSE html

(***************************************************************************)
(* The route and the timestamps.                                           *)
(***************************************************************************)
\* url.pathname.replace(/\/$/, "")
Pathname(path) == StripTrailingSlash(path)
\* Slug with the second replace lacking its g flag: only the first character is replaced
SlugReplacingFirstOnly(path) ==
    LET pathForSlug == IF Pathname(path) # <<>> THEN Pathname(path) ELSE <<"/">>
        s == StripLeadingSlash(pathForSlug)
        bad == {i \in 1..Len(s) : s[i] \notin SlugChars}
        first == CHOOSE i \in bad : \A j \in bad : i <= j
        replaced == IF bad = {} THEN s ELSE [s EXCEPT ![first] = "-"]
    IN  IF pathForSlug = <<"/">> THEN <<"h", "o", "m", "e">>
        ELSE IF replaced # <<>> THEN replaced ELSE <<"h", "o", "m", "e">>

\* pathForSlug === "/" ? "home" : pathForSlug.replace(...).replace(...) || "home"
Slug(path) ==
    LET pathForSlug == IF Pathname(path) # <<>> THEN Pathname(path) ELSE <<"/">>
        replaced == ReplaceNonSlugChars(StripLeadingSlash(pathForSlug))
    IN  IF pathForSlug = <<"/">> THEN <<"h", "o", "m", "e">>
        ELSE IF replaced # <<>> THEN replaced ELSE <<"h", "o", "m", "e">>

IsoDate(full) == Slice0(full, 10)

(***************************************************************************)
(* The response.                                                           *)
(***************************************************************************)
\* IsHtml taking an answer without content-type for HTML
IsHtmlOrUntyped(headers) ==
    ~HeadersHas(headers, "content-type")
    \/ Includes(HeadersGetOrEmpty(headers, "content-type"), "text/html")

\* const ctype = originRes.headers.get("content-type") || ""; ctype.includes("text/html")
IsHtml(headers) == Includes(HeadersGetOrEmpty(headers, "content-type"), "text/html")

\* the instant Last-Modified is made of: CF_PAGES_COMMIT_TIME || Date.now()
LastModifiedInstant(commitTime, captured, dateNow) ==
    IF commitTime.some THEN commitTime.val ELSE dateNow

\* HashedText taking the body as the origin sent it
HashedTextBeforeRewrite(originBody, rewrittenBody) == SerializeNodes(originBody)

\* what is hashed: new TextEncoder().encode(finalBody), the body after the rewrite
HashedText(originBody, rewrittenBody) == SerializeNodes(rewrittenBody)

\* FinalHeaders with the Referrer-Policy set whatever the origin sent
FinalHeadersOverridingPolicy(origin, hashed, lm) ==
    LET h1 == HeadersSet(origin, "x-aduplanet-injected", <<"1">>)
        h2 == HeadersSet(h1, "ETag", WeakETag(HexOfDigest(Sha256(TextEncode(hashed)))))
        h3 == HeadersSet(h2, "Last-Modified", ToUTCString(lm))
        h4 == HeadersSet(h3, "Cache-Control", <<"public, max-age=0, must-revalidate">>)
    IN  HeadersSet(h4, "referrer-policy", <<"strict-origin-when-cross-origin">>)

\* the headers of the final response, lines 170-189
FinalHeaders(origin, hashed, lm) ==
    LET h1 == HeadersSet(origin, "x-aduplanet-injected", <<"1">>)
        h2 == HeadersSet(h1, "ETag", WeakETag(HexOfDigest(Sha256(TextEncode(hashed)))))
        h3 == HeadersSet(h2, "Last-Modified", ToUTCString(lm))
        h4 == HeadersSet(h3, "Cache-Control", <<"public, max-age=0, must-revalidate">>)
        h5 == IF ~HeadersHas(h4, "referrer-policy")
              THEN HeadersSet(h4, "referrer-policy", <<"strict-origin-when-cross-origin">>)
              ELSE h4
    IN  IF ~HeadersHas(h5, "content-type")
        THEN HeadersSet(h5, "content-type", <<"text/html", ";", " ", "charset=utf-8">>)
        ELSE h5

\* PassThrough with the debug marker put on
PassThroughMarked(origin) ==
    [origin EXCEPT !.headers = HeadersSet(origin.headers, "x-aduplanet-injected", <<"1">>)]

\* the non-HTML answer goes back as it came
PassThrough(origin) == origin

(***************************************************************************)
(* The steps: onRequest from one await to the next.                        *)
(***************************************************************************)
\* the clock moves on while onRequest waits
Tick ==
    /\ pc \notin {"done", "threw"}
    /\ ticks < MaxTicks
    /\ clock' = TickInstant(clock)
    /\ ticks' = ticks + 1
    /\ UNCHANGED <<inputVars, pc, assetVars, routeVars, timeVars, bodyVars, response>>

\* await next() resolves; the content-type guard; getAsset("/partials/header.html")
\* is called, lines 16-36
OriginResponds ==
    /\ pc = "next"
    /\ IF ~IsHtml(OriginRes.headers)
       THEN /\ response' = Some(PassThrough(OriginRes))
            /\ pc' = "done"
            /\ UNCHANGED <<fetchLog, inFlight>>
       ELSE /\ response' = response
            /\ pc' = "getHeader"
            /\ Calls(HeaderPartialPath)
    /\ UNCHANGED <<inputVars, clock, ticks, headerHTML, footerHTML, cssHref, forceCssHref,
                   routeVars, timeVars, bodyVars>>

\* await getAsset("/partials/header.html") resolves, line 36;
\* getAsset("/partials/footer.html") is called, line 37
HeaderPartialResolves ==
    /\ pc = "getHeader"
    /\ Calls(FooterPartialPath)
    /\ headerHTML' = getAsset(inp.store, inp.store.header)
    /\ pc' = "getFooter"
    /\ UNCHANGED <<inputVars, clock, ticks, footerHTML, cssHref, forceCssHref, routeVars,
                   timeVars, bodyVars, response>>

\* await getAsset("/partials/footer.html") resolves; the two fallbacks;
\* assetExists("/styles/main.css") is called, lines 37-90
FooterPartialResolves ==
    /\ pc = "getFooter"
    /\ Calls(MainCssPath)
    /\ headerHTML' = OrFallback(headerHTML, FallbackHeader)
    /\ footerHTML' = OrFallback(getAsset(inp.store, inp.store.footer), FallbackFooter)
    /\ pc' = "probeMainCss"
    /\ UNCHANGED <<inputVars, clock, ticks, cssHref, forceCssHref, routeVars, timeVars,
                   bodyVars, response>>

\* await assetExists("/styles/main.css") resolves, line 90; assetExists is called for
\* /styles/main when main.css is missing, else for /styles/force-light.css, lines 91-93
MainCssProbeResolves ==
    /\ pc = "probeMainCss"
    /\ IF assetExists(inp.store, inp.store.mainCss)
       THEN cssHref' = Some(MainCssPath) /\ pc' = "probeForceLight" /\ Calls(ForceLightCssPath)
       ELSE cssHref' = cssHref /\ pc' = "probeMain" /\ Calls(MainPath)
    /\ UNCHANGED <<inputVars, clock, ticks, headerHTML, footerHTML, forceCssHref, routeVars,
                   timeVars, bodyVars, response>>

\* await assetExists("/styles/main") resolves, line 91;
\* assetExists("/styles/force-light.css") is called, line 93
MainProbeResolves ==
    /\ pc = "probeMain"
    /\ Calls(ForceLightCssPath)
    /\ cssHref' = IF assetExists(inp.store, inp.store.main) THEN Some(MainPath) ELSE Null
    /\ pc' = "probeForceLight"
    /\ UNCHANGED <<inputVars, clock, ticks, headerHTML, footerHTML, forceCssHref, routeVars,
                   timeVars, bodyVars, response>>

\* ForceLightProbeResolves going on without the await: the probe is still in flight
\* when the pass starts, its promise taken for true
ForceLightProbeNotAwaited ==
    /\ pc = "probeForceLight"
    /\ fetchLog' = fetchLog /\ inFlight' = inFlight
    /\ forceCssHref' = Some(ForceLightCssPath)
    /\ pathname' = Pathname(inp.path)
    /\ slug' = Slug(inp.path)
    /\ now' = clock
    /\ isoFull' = ToISOString(clock)
    /\ isoDate' = IsoDate(ToISOString(clock))
    /\ human' = ToLocaleDateString(clock)
    /\ pc' = "readBody"
    /\ UNCHANGED <<inputVars, clock, ticks, headerHTML, footerHTML, cssHref, bodyVars, response>>

\* await assetExists("/styles/force-light.css") resolves, then the route, the
\* timestamps, the construction of the pipeline and the call of rewrittenRes.text(),
\* lines 93-167
ForceLightProbeResolves ==
    /\ pc = "probeForceLight"
    /\ fetchLog' = fetchLog /\ inFlight' = {}
    /\ forceCssHref' = IF assetExists(inp.store, inp.store.forceLight)
                       THEN Some(ForceLightCssPath) ELSE Null
    /\ pathname' = Pathname(inp.path)
    /\ slug' = Slug(inp.path)
    /\ now' = clock
    /\ isoFull' = ToISOString(clock)
    /\ isoDate' = IsoDate(ToISOString(clock))
    /\ human' = ToLocaleDateString(clock)
    /\ pc' = "readBody"
    /\ UNCHANGED <<inputVars, clock, ticks, headerHTML, footerHTML, cssHref, bodyVars, response>>

\* what the handlers close over
Context ==
    [headerHTML |-> headerHTML.val, footerHTML |-> footerHTML.val, cssHref |-> cssHref,
     forceCssHref |-> forceCssHref, pathname |-> pathname, slug |-> slug, isoFull |-> isoFull,
     isoDate |-> isoDate, human |-> human, chunkAt |-> inp.chunkAt]

\* await rewrittenRes.text() resolves, line 167: the streaming pass has run as the
\* body was read, and a response without a body reads as the empty string;
\* crypto.subtle.digest is called, lines 170-174
BodyRead ==
    /\ pc = "readBody"
    /\ finalBody' = IF inp.body.some THEN Some(Transform(inp.body.val, Context)) ELSE Some(<<>>)
    /\ bodyReads' = bodyReads + 1
    /\ pc' = "digest"
    /\ UNCHANGED <<inputVars, clock, ticks, assetVars, routeVars, timeVars, digests, response>>

\* await crypto.subtle.digest(...) resolves, then the headers and new Response(...),
\* lines 174-195
DigestResolves ==
    /\ pc = "digest"
    /\ digests' = digests + 1
    /\ \E outcome \in NewResponseOutcomes(inp.status, finalBody.val) :
          IF outcome = "thrown"
          THEN /\ response' = response
               /\ pc' = "threw"
          ELSE /\ response' =
                   Some([status |-> inp.status,
                         headers |-> FinalHeaders(inp.headers,
                                                  HashedText(inp.body.val, finalBody.val),
                                                  LastModifiedInstant(inp.commitTime, now, clock)),
                         body |-> IF inp.status \in NullBodyStatuses THEN Null ELSE finalBody])
               /\ pc' = "done"
    /\ UNCHANGED <<inputVars, clock, ticks, assetVars, routeVars, timeVars, finalBody, bodyReads>>

\* the next request arrives
NextRequest ==
    /\ pc \in {"done", "threw"}
    /\ handled < MaxRequests
    /\ inp \in RepeatInputs
    /\ \E input \in RepeatInputs :
          /\ inp' = [input EXCEPT !.start = clock]
          /\ pc' = "next"
          /\ fetchLog' = <<>> /\ inFlight' = {}
          /\ headerHTML' = Null /\ footerHTML' = Null /\ cssHref' = Null /\ forceCssHref' = Null
          /\ pathname' = <<>> /\ slug' = <<>>
          /\ now' = NoInstant /\ isoFull' = <<>> /\ isoDate' = <<>> /\ human' = <<>>
          /\ finalBody' = Null /\ bodyReads' = 0 /\ digests' = 0
          /\ response' = NoResponse
    /\ prev' = [some |-> TRUE, inp |-> inp, res |-> response]
    /\ handled' = handled + 1
    /\ UNCHANGED <<clock, ticks>>

Next ==
    \/ Tick
    \/ OriginResponds
    \/ HeaderPartialResolves
    \/ FooterPartialResolves
    \/ MainCssProbeResolves
    \/ MainProbeResolves
    \/ ForceLightProbeResolves
    \/ BodyRead
    \/ DigestResolves
    \/ NextRequest

Spec == Init /\ [][Next]_vars

(***************************************************************************)
(* What the properties below speak of.                                     *)
(***************************************************************************)
\* the origin's answer has a content-type that contains text/html
HtmlOrigin ==
    /\ "content-type" \in DOMAIN inp.headers
    /\ \E i \in 1..Len(inp.headers["content-type"]) : inp.headers["content-type"][i] = "text/html"
Returned == pc = "done" /\ response.some
Res == response.val

\* the kinds of element the properties look for
Matches(kind, n, anc) ==
    CASE kind = "navAnchor" -> n.tag = "a" /\ InHeaderNav(anc)
      [] kind = "markedTime" -> n.tag = "time" /\ HasAttribute(n, "data-global-freshness")
      [] kind = "jsonLd" -> IsJsonLdScript(n)
      [] kind = "header" -> n.tag = "header"
      [] kind = "footer" -> n.tag = "footer"
      [] kind = "head" -> n.tag = "head"
      [] kind = "body" -> n.tag = "body"
\* the elements of a document of the given kind, in document order
RECURSIVE Select(_, _, _)
Select(ns, anc, kind) ==
    Concat([i \in 1..Len(ns) |->
              (IF Matches(kind, ns[i], anc) THEN <<ns[i]>> ELSE <<>>)
              \o Select(ns[i].kids, Append(anc, ns[i].tag), kind)])
Range(s) == {s[i] : i \in 1..Len(s)}

(***************************************************************************)
(* C1.  A response whose origin content-type does not contain text/html is *)
(* returned as the origin sent it: same status, same headers, same body,   *)
(* and no x-aduplanet-injected header is added; its body is not read.      *)
(***************************************************************************)
C1_NonHtmlUnchanged ==
    (pc \in {"done", "threw"} /\ ~HtmlOrigin) =>
        /\ Returned
        /\ Res.status = inp.status
        /\ Res.headers = inp.headers
        /\ Res.body = inp.body
        /\ ("x-aduplanet-injected" \in DOMAIN Res.headers <=>
                "x-aduplanet-injected" \in DOMAIN inp.headers)
        /\ bodyReads = 0

\* a non-HTML answer with a content-type of its own has been returned
C1_Witness ==
    /\ Returned /\ ~HtmlOrigin
    /\ "content-type" \in DOMAIN inp.headers
    /\ inp.body.some

(***************************************************************************)
(* C2.  A HEAD request whose origin response is HTML gets a null body and  *)
(* no ETag, and its body is neither read nor hashed.                       *)
(***************************************************************************)
C2_HeadNeverReadsOrHashes ==
    (inp.method = "HEAD" /\ HtmlOrigin) =>
        /\ bodyReads = 0
        /\ digests = 0
        /\ Returned => (~Res.body.some /\ "etag" \notin DOMAIN Res.headers)

(***************************************************************************)
(* C3.  The ETag of a non-HEAD HTML response is W/"<16 hex characters>",   *)
(* it takes the place of any ETag of the origin, and it depends on the     *)
(* final body only: two responses with the same final body have the same   *)
(* ETag.                                                                   *)
(***************************************************************************)
HexChars == Digits \cup {"a", "b", "c", "d", "e", "f"}
IsWeakETag(v) ==
    /\ Len(v) = 20
    /\ SubSeq(v, 1, 3) = <<"W", "/", "\"">>
    /\ \A i \in 4..19 : v[i] \in HexChars
    /\ v[20] = "\""
C3_ETagOfFinalBody ==
    (Returned /\ HtmlOrigin /\ inp.method # "HEAD") =>
        /\ "etag" \in DOMAIN Res.headers
        /\ IsWeakETag(Res.headers["etag"])
        /\ (prev.some /\ prev.res.some /\ prev.res.val.body = Res.body) =>
               prev.res.val.headers["etag"] = Res.headers["etag"]

\* two responses in a row with the same final body, made from different origin
\* bodies, the second origin response carrying an ETag of its own
C3_Witness ==
    /\ Returned /\ HtmlOrigin /\ inp.method # "HEAD"
    /\ prev.some /\ prev.res.some /\ prev.res.val.body = Res.body
    /\ prev.inp.body # inp.body
    /\ "etag" \in DOMAIN inp.headers

(***************************************************************************)
(* C4.  The route: normalizedPath is the path less exactly one trailing    *)
(* slash; the slug is "home" for "/" or an empty result, and otherwise     *)
(* normalizedPath less its leading slash with every character outside      *)
(* [A-Za-z0-9_-] turned into "-"; it has no other character.               *)
(***************************************************************************)
RouteDerived == pc \in {"readBody", "digest", "done", "threw"} /\ HtmlOrigin
Rest == IF pathname # <<>> /\ pathname[1] = "/" THEN Tail(pathname) ELSE pathname
C4_RouteSlug ==
    RouteDerived =>
        /\ IF inp.path[Len(inp.path)] = "/"
           THEN pathname \o <<"/">> = inp.path
           ELSE pathname = inp.path
        /\ IF Rest = <<>>
           THEN slug = <<"h", "o", "m", "e">>
           ELSE /\ Len(slug) = Len(Rest)
                /\ \A i \in 1..Len(Rest) :
                      slug[i] = IF Rest[i] \in SlugChars THEN Rest[i] ELSE "-"
        /\ \A i \in 1..Len(slug) : slug[i] \in SlugChars
        /\ slug # <<>>
        /\ inp.path = <<"/", "f", "i", "n", "a", "n", "c", "i", "n", "g">> => slug = <<"f", "i",
            "n", "a", "n", "c", "i", "n", "g">>
        /\ inp.path = <<"/">> => slug = <<"h", "o", "m", "e">>
        /\ inp.path = <<"/", "b", "l", "o", "g", "/", "m", "y", "-", "p", "o", "s", "t",
            "!">> => slug = <<"b", "l", "o", "g", "-", "m", "y", "-", "p", "o", "s", "t", "-">>

\* the slug of a path whose characters had to be replaced
C4_Witness ==
    /\ RouteDerived
    /\ inp.path = <<"/", "b", "l", "o", "g", "/", "m", "y", "-", "p", "o", "s", "t", "!">>
    /\ slug = <<"b", "l", "o", "g", "-", "m", "y", "-", "p", "o", "s", "t", "-">>

(***************************************************************************)
(* C5.  In the response for path P, an anchor in the header's nav carries  *)
(* aria-current="page" if and only if its href less one trailing slash     *)
(* equals P less one trailing slash.                                       *)
(***************************************************************************)
IsCurrent(a) ==
    HasAttribute(a, "aria-current") /\ GetAttributeOrEmpty(a, "aria-current") = <<"p", "a", "g",
        "e">>
C5_CurrentAnchorMarked ==
    (Returned /\ HtmlOrigin /\ Res.body.some) =>
        \A a \in Range(Select(Res.body.val, <<>>, "navAnchor")) :
            IsCurrent(a) <=>
                StripTrailingSlash(GetAttributeOrEmpty(a, "href")) = StripTrailingSlash(inp.path)

(***************************************************************************)
(* C6.  Every <time data-global-freshness> of the response, those of the   *)
(* substituted header and footer included, has datetime equal to the first *)
(* 10 characters of the captured instant's ISO string and the instant's    *)
(* human date as its text.                                                 *)
(***************************************************************************)
C6_EveryStampFresh ==
    (Returned /\ HtmlOrigin /\ Res.body.some) =>
        \A t \in Range(Select(Res.body.val, <<>>, "markedTime")) :
            /\ GetAttributeOrEmpty(t, "datetime") = SubSeq(ToISOString(now), 1, 10)
            /\ t.kids = <<Txt(ToLocaleDateString(now))>>

(***************************************************************************)
(* C7.  In every application/ld+json block, each "dateModified" key/value  *)
(* occurrence has its value replaced by isoDate, and every other byte of   *)
(* the block is as it was.                                                 *)
(***************************************************************************)
\* the length of the value of the occurrence at the start of t, and where it starts
ValueStart(t) ==
    LET k == Len(DateModifiedKey)
        w1 == RunLength(Drop(t, k), WhiteSpace)
        w2 == RunLength(Drop(t, k + w1 + 1), WhiteSpace)
    IN  k + w1 + 1 + w2 + 1
\* the block with the values of its occurrences replaced, nothing else touched
RECURSIVE ValuesReplaced(_, _)
ValuesReplaced(src, date) ==
    IF src = <<>> THEN <<>>
    ELSE LET n == DateModifiedMatchLength(src)
         IN  IF n > 0
             THEN SubSeq(src, 1, ValueStart(src)) \o date \o <<"\"">>
                  \o ValuesReplaced(Drop(src, n), date)
             ELSE <<Head(src)>> \o ValuesReplaced(Tail(src), date)
BlockTexts(doc) ==
    LET blocks == Select(doc, <<>>, "jsonLd")
    IN  [i \in 1..Len(blocks) |-> blocks[i].kids[1].text]
C7_OnlyValuesReplaced ==
    (Returned /\ HtmlOrigin /\ Res.body.some /\ inp.body.some) =>
        BlockTexts(Res.body.val) =
            [i \in 1..Len(BlockTexts(inp.body.val)) |->
                ValuesReplaced(BlockTexts(inp.body.val)[i], isoDate)]

(***************************************************************************)
(* C8.  With the header and footer partials absent or failing (a throw, no *)
(* binding, a non-ok answer), the handling still completes and returns the *)
(* origin's status with the built-in fragments in the header and footer.   *)
(***************************************************************************)
Fails(entry) == ~inp.store.hasAssets \/ entry.kind # "ok"
C9_LastModifiedOfCapturedInstant ==
    (Returned /\ HtmlOrigin) =>
        Res.headers["last-modified"] =
            ToUTCString(IF inp.commitTime.some THEN inp.commitTime.val ELSE now)

(***************************************************************************)
(* C10.  The final response keeps every origin header but the four it      *)
(* sets, and gives Referrer-Policy and Content-Type a value only when the  *)
(* origin sent none.                                                       *)
(***************************************************************************)
SetByFinalizer == {"x-aduplanet-injected", "etag", "last-modified", "cache-control"}
DefaultedByFinalizer == {"referrer-policy", "content-type"}
C10_OriginHeadersKept ==
    (Returned /\ HtmlOrigin) =>
        /\ \A n \in (DOMAIN inp.headers) \ SetByFinalizer :
              n \in DOMAIN Res.headers /\ Res.headers[n] = inp.headers[n]
        /\ DOMAIN Res.headers =
              (DOMAIN inp.headers) \cup SetByFinalizer \cup DefaultedByFinalizer
        /\ "referrer-policy" \notin DOMAIN inp.headers =>
              Res.headers["referrer-policy"] = <<"strict-origin-when-cross-origin">>

\* an HTML response whose origin named a Referrer-Policy of its own
C10_Witness ==
    /\ Returned /\ HtmlOrigin
    /\ "referrer-policy" \in DOMAIN inp.headers
    /\ Res.headers["referrer-policy"] = <<"no-referrer">>

Exists(entry) == inp.store.hasAssets /\ entry.kind = "ok"
ExpectedHeadAppends ==
    (IF Exists(inp.store.mainCss) THEN <<PrimaryLink(MainCssPath)>>
     ELSE IF Exists(inp.store.main) THEN <<PrimaryLink(MainPath)>>
     ELSE <<InlineFallbackStyle>>)
    \o (IF Exists(inp.store.forceLight) THEN <<ForceLightLink(ForceLightCssPath)>> ELSE <<>>)
    \o <<UpdatedTimeMeta(ToISOString(now))>>
Suffix(s, n) == SubSeq(s, Len(s) - n + 1, Len(s))
C12_HeadAppendOrder ==
    (Returned /\ HtmlOrigin /\ Res.body.some /\ inp.body.some) =>
        LET heads == Select(Res.body.val, <<>>, "head")
            origin == Select(inp.body.val, <<>>, "head")
            n == Len(ExpectedHeadAppends)
        IN  /\ Len(heads) = Len(origin)
            /\ \A i \in 1..Len(heads) :
                  /\ Len(heads[i].kids) = Len(origin[i].kids) + n
                  /\ Suffix(heads[i].kids, n) = ExpectedHeadAppends

\* a page with a <head> came back where /styles/main.css is missing, /styles/main
\* and /styles/force-light.css are there: three appended children
C12_Witness ==
    /\ Returned /\ HtmlOrigin /\ Res.body.some
    /\ ~Exists(inp.store.mainCss) /\ Exists(inp.store.main) /\ Exists(inp.store.forceLight)
    /\ Select(Res.body.val, <<>>, "head") # <<>>
    /\ Len(ExpectedHeadAppends) = 3

(***************************************************************************)
(* C13.  The class of every <body> is the existing class value (empty when *)
(* missing) followed, space-joined, by force-light and page-<slug>, with   *)
(* no check for tokens already there, and data-route is the slug.          *)
(***************************************************************************)
BodyTokens == <<"f", "o", "r", "c", "e", "-", "l", "i", "g", "h", "t", " ", "p", "a", "g", "e",
    "-">> \o Slug(inp.path)
Joined(existing) == (IF existing # <<>> THEN existing \o <<" ">> ELSE <<>>) \o BodyTokens
\* as stated: the existing value stays as it is written
C13_ClassVerbatimThenTokens ==
    (Returned /\ HtmlOrigin /\ Res.body.some /\ inp.body.some) =>
        LET bodies == Select(Res.body.val, <<>>, "body")
            origin == Select(inp.body.val, <<>>, "body")
        IN  /\ Len(bodies) = Len(origin)
            /\ \A i \in 1..Len(bodies) :
                  /\ GetAttributeOrEmpty(bodies[i], "class")
                        = Joined(GetAttributeOrEmpty(origin[i], "class"))
                  /\ GetAttributeOrEmpty(bodies[i], "data-route") = Slug(inp.path)

\* C13 as the code has it: white space at the two ends of the existing value is
\* trimmed before the tokens are joined on; the rest of the value stays as it is,
\* nothing is deduplicated (the rule applied to its own output adds the two tokens a
\* second time), and data-route is the slug
C13_ClassTrimmedThenTokens ==
    (Returned /\ HtmlOrigin /\ Res.body.some /\ inp.body.some) =>
        LET bodies == Select(Res.body.val, <<>>, "body")
            origin == Select(inp.body.val, <<>>, "body")
        IN  /\ Len(bodies) = Len(origin)
            /\ \A i \in 1..Len(bodies) :
                  /\ GetAttributeOrEmpty(bodies[i], "class")
                        = Joined(Trim(GetAttributeOrEmpty(origin[i], "class")))
                  /\ GetAttributeOrEmpty(bodies[i], "data-route") = Slug(inp.path)
                  /\ GetAttributeOrEmpty(BodyHandler(bodies[i], Context), "class")
                        = GetAttributeOrEmpty(bodies[i], "class") \o <<" ">> \o BodyTokens

\* a <body class=" home wide "> came back for /financing
C13_Witness ==
    /\ Returned /\ HtmlOrigin /\ Res.body.some /\ inp.body.some
    /\ \E i \in 1..Len(Select(inp.body.val, <<>>, "body")) :
          /\ GetAttributeOrEmpty(Select(inp.body.val, <<>>, "body")[i], "class")
                = <<" ", "h", "o", "m", "e", " ", "w", "i", "d", "e", " ">>
          /\ GetAttributeOrEmpty(Select(Res.body.val, <<>>, "body")[i], "class")
                = <<"h", "o", "m", "e", " ", "w", "i", "d", "e", " ", "f", "o", "r", "c", "e", "-",
                    "l", "i", "g", "h", "t", " ", "p", "a", "g", "e", "-", "f", "i", "n", "a", "n",
                    "c", "i", "n", "g">>

(***************************************************************************)
(* C14.  Within one response the freshness values of every date-bearing    *)
(* injection agree and come from one captured instant: the meta content is *)
(* the instant's ISO string, isoDate is its first 10 characters, the human *)
(* date names the same calendar day, and every <time> stamp and every      *)
(* injected dateModified value of the response carries these values.       *)
(***************************************************************************)
DigitValue(c) == CHOOSE n \in 0..9 : DigitChar(n) = c
RECURSIVE Number(_)
Number(t) == IF t = <<>> THEN 0 ELSE 10 * Number(Front(t)) + DigitValue(Last(t))
\* the calendar day a YYYY-MM-DD string names
DayOfIsoDate(d) ==
    [year |-> Number(SubSeq(d, 1, 4)), month |-> Number(SubSeq(d, 6, 7)),
     date |-> Number(SubSeq(d, 9, 10))]
\* the calendar day a "Month D, Year" text names
DayOfHumanDate(h) ==
    LET comma == CHOOSE i \in 1..Len(h) : h[i] = ","
    IN  [year |-> Number(SubSeq(h, comma + 2, Len(h))),
         month |-> CHOOSE m \in 1..12 : MonthLong[m] = h[1],
         date |-> Number(SubSeq(h, 3, comma - 1))]
MetaContents(doc) ==
    LET heads == Select(doc, <<>>, "head")
    IN  [i \in 1..Len(heads) |-> GetAttributeOrEmpty(Last(heads[i].kids), "content")]
C14_FreshnessConsistent ==
    (Returned /\ HtmlOrigin /\ Res.body.some /\ inp.body.some) =>
        /\ isoFull = ToISOString(now)
        /\ isoDate = SubSeq(isoFull, 1, 10)
        /\ DayOfHumanDate(human) = DayOfIsoDate(isoDate)
        /\ \A i \in 1..Len(MetaContents(Res.body.val)) : MetaContents(Res.body.val)[i] = isoFull
        /\ \A t \in Range(Select(Res.body.val, <<>>, "markedTime")) :
              /\ GetAttributeOrEmpty(t, "datetime") = isoDate
              /\ t.kids = <<Txt(human)>>
        /\ BlockTexts(Res.body.val) =
              [i \in 1..Len(BlockTexts(inp.body.val)) |->
                  RewriteJsonLdText(BlockTexts(inp.body.val)[i], inp.chunkAt, isoDate)]

(***************************************************************************)
(* C15.  The inner content of <header> and of <footer> is the stored       *)
(* fragment whenever the lookup returned a payload, whatever its text, and *)
(* the built-in fragment only when the lookup returned none; nothing of    *)
(* the origin's inner content stays.                                       *)
(***************************************************************************)
C15_PayloadElseFallback ==
    (Returned /\ HtmlOrigin /\ Res.body.some) =>
        /\ \A h \in Range(Select(Res.body.val, <<>>, "header")) :
              h.kids = IF Exists(inp.store.header) THEN inp.store.header.text ELSE FallbackHeader
        /\ \A f \in Range(Select(Res.body.val, <<>>, "footer")) :
              f.kids = IF Exists(inp.store.footer) THEN inp.store.footer.text ELSE FallbackFooter

(***************************************************************************)
(* C16.  When the streaming pass of an HTML response starts, every asset   *)
(* lookup (header, footer, /styles/main.css, /styles/main when main.css is *)
(* missing, /styles/force-light.css) has been issued and has resolved, and *)
(* none is issued from then on.                                            *)
(***************************************************************************)
ExpectedLookups ==
    IF ~inp.store.hasAssets THEN <<>>
    ELSE <<HeaderPartialPath, FooterPartialPath, MainCssPath>>
         \o (IF Exists(inp.store.mainCss) THEN <<>> ELSE <<MainPath>>)
         \o <<ForceLightCssPath>>
PassStarted == pc \in {"readBody", "digest"} \/ (pc \in {"done", "threw"} /\ HtmlOrigin)
C16_LookupsDoneBeforePass ==
    PassStarted =>
        /\ inFlight = {}
        /\ fetchLog = ExpectedLookups
        /\ headerHTML.some /\ footerHTML.some

\* the pass has started after five lookups, /styles/main among them
C16_Witness ==
    /\ pc = "readBody" /\ inp.store.hasAssets
    /\ Len(fetchLog) = 5
    /\ Exists(inp.store.header) /\ ~Exists(inp.store.footer)

(***************************************************************************)
(* C17.  The probes for the header fragment, the footer fragment, the      *)
(* primary stylesheet and the force-light stylesheet are issued together:  *)
(* none is started only after another one has resolved, so by the time any *)
(* of them has resolved all four have been issued.                         *)
(***************************************************************************)
Resolved == {fetchLog[i] : i \in 1..Len(fetchLog)} \ inFlight
C17_ProbesIssuedTogether ==
    (inp.store.hasAssets /\ Resolved # {}) =>
        {HeaderPartialPath, FooterPartialPath, MainCssPath, ForceLightCssPath}
            \subseteq {fetchLog[i] : i \in 1..Len(fetchLog)}

(***************************************************************************)
(* C18.  On the path of a non-HTML origin response no asset lookup is ever *)
(* issued and the rewrite pipeline is never constructed.                   *)
(***************************************************************************)
C18_NonHtmlIssuesNoLookup ==
    ~HtmlOrigin =>
        /\ fetchLog = <<>> /\ inFlight = {}
        /\ pc \in {"next", "done"}
        /\ isoFull = <<>> /\ ~finalBody.some /\ bodyReads = 0

\* a non-HTML answer went back from an environment that has the ASSETS binding
C18_Witness ==
    /\ Returned /\ ~HtmlOrigin
    /\ inp.store.hasAssets
    /\ "content-type" \notin DOMAIN inp.headers
====
